---- MODULE Spec2Model ----
(***************************************************************************)
(* Model of the docling-processor service:                                 *)
(*   app.py                 - POST /extract handler and its transform      *)
(*                            helpers (create_llm_chunks, get_heading_     *)
(*                            level, get_page_count, has_tables, ...)      *)
(*   docling_processor.py   - DoclingProcessor.process_document and its    *)
(*                            helpers (_extract_structure, _create_chunks) *)
(*                                                                         *)
(* Strings are sequences of one-character strings; Python's None is the    *)
(* record None; a call that may raise yields Ok(value) or Raised(message). *)
(***************************************************************************)
EXTENDS Integers, Sequences, FiniteSets, TLC

VARIABLES
    op,             \* operation in progress: "none", "extract", "process"
    pc,             \* position of the operation in its code
    req,            \* the operation's arguments
    files,          \* temp files that exist on disk (ids)
    temp_file,      \* id of the file NamedTemporaryFile created for this operation, 0 if none
    temp_path,      \* the local temp_path, 0 while unbound
    doc,            \* result.document of the converter
    exc,            \* the exception raised in this operation, NoExc if none
    retval,         \* value of the return statement waiting for the finally block
    resp,           \* what the operation handed back to its caller
    converterCalls, \* converter.convert invocations of this operation
    tempCreated,    \* temp files created by this operation
    callback,       \* the callback POST of this operation: "none", "sent", "failed"
    nreq,           \* operations started so far
    fn,             \* transform function under call
    arg,            \* its arguments
    out             \* its return value

vars == <<op, pc, req, files, temp_file, temp_path, doc, exc, retval, resp,
          converterCalls, tempCreated, callback, nreq, fn, arg, out>>

svcVars == <<op, pc, req, files, temp_file, temp_path, doc, exc, retval, resp,
             converterCalls, tempCreated, callback, nreq>>

fnVars == <<fn, arg, out>>

-----------------------------------------------------------------------------
(* Bounds of the model *)

MaxTextLen == 8
MaxChunkArg == 3
MaxLabelTokens == 3
MaxPages == 3
MaxItems == 3
MaxTables == 1
MaxRequests == 2
MaxElapsed == 1

-----------------------------------------------------------------------------
(* Python values *)

None == [none |-> TRUE]

\* outcome of a call that may raise: its value, or the exception's message
Ok(v) == [ok |-> TRUE, val |-> v]

Raised(msg) == [ok |-> FALSE, val |-> msg]

NoExc == [raised |-> FALSE, msg |-> ""]

Exc(msg) == [raised |-> TRUE, msg |-> msg]

\* what the caller of an operation gets: via is "return" (body is the value
\* returned) or "raise" (an exception left the operation; for an HTTPException
\* status is its status_code); a returned body is sent with status 200
NoResp == [via |-> "none", status |-> 0, body |-> None]

\* Optional[str]
NoStr == [some |-> FALSE, v |-> ""]

SomeStr(v) == [some |-> TRUE, v |-> v]

\* truth value of an Optional[str]: None and "" are false
TruthyStr(x) == x.some /\ x.v # ""

NL == "\n"

Whitespace == {" ", NL}

SeqsUpTo(S, n) == UNION {[1..k -> S] : k \in 0..n}

-----------------------------------------------------------------------------
(* str methods *)

\* s[i:]  (0-based Python slice start)
DropFirst(s, n) == SubSeq(s, n + 1, Len(s))

StartsWith(s, p) == Len(s) >= Len(p) /\ SubSeq(s, 1, Len(p)) = p

EndsWith(s, p) == Len(s) >= Len(p) /\ SubSeq(s, Len(s) - Len(p) + 1, Len(s)) = p

\* p in s
Contains(s, p) == \E i \in 0..(Len(s) - Len(p)) : StartsWith(DropFirst(s, i), p)

\* index (0-based) of the first occurrence of p in s, -1 if none: str.find
Find(s, p) ==
    IF Contains(s, p)
    THEN CHOOSE i \in 0..(Len(s) - Len(p)) :
            /\ StartsWith(DropFirst(s, i), p)
            /\ \A j \in 0..(i - 1) : ~StartsWith(DropFirst(s, j), p)
    ELSE -1

\* s.split(sep): left to right, non-overlapping, empty pieces kept
RECURSIVE Split(_, _)
Split(s, sep) ==
    LET i == Find(s, sep)
    IN IF i = -1 THEN <<s>>
       ELSE <<SubSeq(s, 1, i)>> \o Split(DropFirst(s, i + Len(sep)), sep)

RECURSIVE LStrip(_)
LStrip(s) == IF s # <<>> /\ Head(s) \in Whitespace THEN LStrip(Tail(s)) ELSE s

RECURSIVE RStrip(_)
RStrip(s) ==
    IF s # <<>> /\ s[Len(s)] \in Whitespace THEN RStrip(SubSeq(s, 1, Len(s) - 1)) ELSE s

\* s.strip()
Strip(s) == RStrip(LStrip(s))

\* sep.join(parts)
RECURSIVE Join(_, _)
Join(parts, sep) ==
    IF parts = <<>> THEN <<>>
    ELSE IF Len(parts) = 1 THEN parts[1]
    ELSE parts[1] \o sep \o Join(Tail(parts), sep)

\* s.split(): runs of whitespace separate words, no empty words
RECURSIVE SplitWords(_, _)
SplitWords(s, word) ==
    IF s = <<>> THEN (IF word = <<>> THEN <<>> ELSE <<word>>)
    ELSE IF Head(s) \in Whitespace
         THEN (IF word = <<>> THEN <<>> ELSE <<word>>) \o SplitWords(Tail(s), <<>>)
         ELSE SplitWords(Tail(s), Append(word, Head(s)))

SplitWhitespace(s) == SplitWords(s, <<>>)

RECURSIVE Flatten(_)
Flatten(ss) == IF ss = <<>> THEN <<>> ELSE Head(ss) \o Flatten(Tail(ss))

ParagraphSep == <<NL, NL>>

-----------------------------------------------------------------------------
(* app.py: create_llm_chunks *)

DefaultMaxChunkSize == 2000

ParagraphGroup(current_chunk, current_size) ==
    [text |-> Join(current_chunk, ParagraphSep), size |-> current_size,
     type |-> "paragraph_group"]

\* the flush test of line 199
ExceedsChunk(current_chunk, current_size, paragraph, max_chunk_size) ==
    current_size + Len(paragraph) > max_chunk_size /\ current_chunk # <<>>

\* variant: the paragraph that triggers a flush is not carried over
RestartChunk_Dropped(paragraph) == <<>>

\* the running chunk after a flush: emptied (line 205), then the paragraph
\* appended (line 208)
RestartChunk(paragraph) == <<paragraph>>

\* the for loop of lines 193-209 from paragraph i on, then the final flush
RECURSIVE ParagraphLoop(_, _, _, _, _, _)
ParagraphLoop(paragraphs, i, chunks, current_chunk, current_size, max_chunk_size) ==
    IF i > Len(paragraphs)
    THEN IF current_chunk # <<>>
         THEN Append(chunks, ParagraphGroup(current_chunk, current_size))
         ELSE chunks
    ELSE LET paragraph == Strip(paragraphs[i])
         IN IF paragraph = <<>>
            THEN ParagraphLoop(paragraphs, i + 1, chunks, current_chunk, current_size,
                               max_chunk_size)
            ELSE IF ExceedsChunk(current_chunk, current_size, paragraph, max_chunk_size)
                 THEN ParagraphLoop(paragraphs, i + 1,
                          Append(chunks, ParagraphGroup(current_chunk, current_size)),
                          RestartChunk(paragraph), Len(paragraph), max_chunk_size)
                 ELSE ParagraphLoop(paragraphs, i + 1, chunks,
                          Append(current_chunk, paragraph),
                          current_size + Len(paragraph), max_chunk_size)

ParagraphChunks(full_text, max_chunk_size) ==
    ParagraphLoop(Split(full_text, ParagraphSep), 1, <<>>, <<>>, 0, max_chunk_size)

WordSplit(chunk_words) ==
    [text |-> Join(chunk_words, <<" ">>), size |-> Len(Join(chunk_words, <<" ">>)),
     type |-> "word_split"]

\* the for loop of lines 227-235 from word i on, then the final flush
RECURSIVE WordLoop(_, _, _, _, _)
WordLoop(words, i, chunks, chunk_words, max_chunk_size) ==
    IF i > Len(words)
    THEN IF chunk_words # <<>> THEN Append(chunks, WordSplit(chunk_words)) ELSE chunks
    ELSE LET added == Append(chunk_words, words[i])
         IN IF Len(Join(added, <<" ">>)) > max_chunk_size
            THEN WordLoop(words, i + 1, Append(chunks, WordSplit(chunk_words)),
                          <<words[i]>>, max_chunk_size)
            ELSE WordLoop(words, i + 1, chunks, added, max_chunk_size)

WordChunks(full_text, max_chunk_size) ==
    WordLoop(SplitWhitespace(full_text), 1, <<>>, <<>>, max_chunk_size)

ErrorText ==
    <<"E", "r", "r", "o", "r", " ", "c", "r", "e", "a", "t", "i", "n", "g", " ",
      "c", "h", "u", "n", "k", "s">>

ErrorChunks == << [text |-> ErrorText, size |-> 0, type |-> "error"] >>

\* exports: what doc.export_to_markdown() does on its first and second call
\* (lines 186 and 223): Ok(text) or Raised(msg).
create_llm_chunks(exports, max_chunk_size) ==
    IF exports[1].ok
    THEN ParagraphChunks(exports[1].val, max_chunk_size)
    ELSE IF exports[2].ok
         THEN WordChunks(exports[2].val, max_chunk_size)
         ELSE ErrorChunks

-----------------------------------------------------------------------------
(* app.py: get_heading_level, get_page_count, has_tables, has_images *)

LowerChar(c) ==
    CASE c = "T" -> "t"
      [] c = "I" -> "i"
      [] c = "L" -> "l"
      [] c = "E" -> "e"
      [] c = "H" -> "h"
      [] c = "P" -> "p"
      [] c = "D" -> "d"
      [] c = "F" -> "f"
      [] OTHER -> c

\* s.lower()
Lower(s) == [i \in 1..Len(s) |-> LowerChar(s[i])]

\* variant: the h-levels are tested before "title"
get_heading_level_TitleLast(label) ==
    LET label_lower == Lower(label)
    IN IF Contains(label_lower, <<"h", "1">>) THEN 1
       ELSE IF Contains(label_lower, <<"h", "2">>) THEN 2
       ELSE IF Contains(label_lower, <<"h", "3">>) THEN 3
       ELSE IF Contains(label_lower, <<"h", "4">>) THEN 4
       ELSE IF Contains(label_lower, <<"t", "i", "t", "l", "e">>) THEN 1
       ELSE 2

get_heading_level(label) ==
    LET label_lower == Lower(label)
    IN IF Contains(label_lower, <<"t", "i", "t", "l", "e">>) THEN 1
       ELSE IF Contains(label_lower, <<"h", "1">>) THEN 1
       ELSE IF Contains(label_lower, <<"h", "2">>) THEN 2
       ELSE IF Contains(label_lower, <<"h", "3">>) THEN 3
       ELSE IF Contains(label_lower, <<"h", "4">>) THEN 4
       ELSE 2

\* An attribute of the document that may be missing: kind is "absent" (hasattr
\* is False), "raises" (reading it or taking its len raises) or "present"
\* (items is the collection).
Absent == [kind |-> "absent", items |-> <<>>]

Raising == [kind |-> "raises", items |-> <<>>]

Present(items) == [kind |-> "present", items |-> items]

get_page_count(pages) ==
    IF pages.kind = "raises" THEN 1
    ELSE IF pages.kind = "present" THEN Len(pages.items)
    ELSE 1

has_tables(tables) ==
    IF tables.kind = "raises" THEN FALSE
    ELSE tables.kind = "present" /\ Len(tables.items) > 0

has_images(pictures) ==
    IF pictures.kind = "raises" THEN FALSE
    ELSE pictures.kind = "present" /\ Len(pictures.items) > 0

-----------------------------------------------------------------------------
(* docling_processor.py: _create_chunks, _extract_structure                   *)
(*                                                                            *)
(* A text item is [stripped, label, page_no]: stripped is the outcome of      *)
(* text_item.text.strip(), Ok([n |-> length, tag |-> identity]) or Raised     *)
(* (text is None); page_no is an Optional[int].                               *)

NoPage == [some |-> FALSE, v |-> 0]

Page(k) == [some |-> TRUE, v |-> k]

\* truth value of an Optional[int]: None and 0 are false
Truthy(p) == p.some /\ p.v # 0

PageChunkLimit == 1000

\* len(' '.join(parts))
RECURSIVE SumN(_)
SumN(parts) == IF parts = <<>> THEN 0 ELSE Head(parts).n + SumN(Tail(parts))

JoinLen(parts) == IF parts = <<>> THEN 0 ELSE SumN(parts) + Len(parts) - 1

TextChunk(document_id, chunk_id, current_chunk, current_page) ==
    [id |-> <<document_id, "chunk", chunk_id>>,
     content |-> [parts |-> current_chunk, n |-> JoinLen(current_chunk)],
     metadata |-> [page_number |-> current_page, index |-> chunk_id, chunk_type |-> "text"],
     page_number |-> current_page,
     chunk_type |-> "text"]

\* the test of line 142
NewChunkDue(current_chunk, current_page, page_no) ==
    (Truthy(current_page) /\ page_no # current_page)
        \/ JoinLen(current_chunk) > PageChunkLimit

\* the for loop of lines 134-159 from item i on, then the final flush; raised
\* tells that an item raised and the except clause of line 190 took over
RECURSIVE PageLoop(_, _, _, _, _, _, _)
PageLoop(texts, i, chunks, chunk_id, current_chunk, current_page, document_id) ==
    IF i > Len(texts)
    THEN [raised |-> FALSE,
          chunks |-> IF current_chunk # <<>>
                     THEN Append(chunks, TextChunk(document_id, chunk_id, current_chunk,
                                                   current_page))
                     ELSE chunks]
    ELSE IF ~texts[i].stripped.ok
    THEN [raised |-> TRUE, chunks |-> chunks]
    ELSE LET text == texts[i].stripped.val
             page_no == texts[i].page_no
         IN IF text.n = 0
            THEN PageLoop(texts, i + 1, chunks, chunk_id, current_chunk, current_page,
                          document_id)
            ELSE IF NewChunkDue(current_chunk, current_page, page_no)
                        /\ current_chunk # <<>>
                 THEN PageLoop(texts, i + 1,
                          Append(chunks, TextChunk(document_id, chunk_id, current_chunk,
                                                   current_page)),
                          chunk_id + 1, <<text>>, page_no, document_id)
                 ELSE PageLoop(texts, i + 1, chunks, chunk_id,
                          Append(current_chunk, text), page_no, document_id)

TableChunk(document_id, i, table) ==
    [id |-> <<document_id, "table", i>>,
     content |-> [parts |-> <<>>, n |-> 0],
     metadata |-> [page_number |-> table.page_no, index |-> i, chunk_type |-> "table"],
     page_number |-> table.page_no,
     chunk_type |-> "table"]

TableChunks(document_id, tables) ==
    [i \in 1..Len(tables) |-> TableChunk(document_id, i - 1, tables[i])]

TextPhase(texts, document_id) ==
    IF texts.kind = "absent" THEN [raised |-> FALSE, chunks |-> <<>>]
    ELSE IF texts.kind = "raises" THEN [raised |-> TRUE, chunks |-> <<>>]
    ELSE PageLoop(texts.items, 1, <<>>, 0, <<>>, NoPage, document_id)

_create_chunks(texts, tables, document_id) ==
    LET t == TextPhase(texts, document_id)
    IN IF t.raised \/ tables.kind # "present"
       THEN t.chunks
       ELSE t.chunks \o TableChunks(document_id, tables.items)

\* _get_header_level
_get_header_level(label) ==
    LET l == Lower(label)
    IN IF Contains(l, <<"h", "1">>) \/ Contains(l, <<"t", "i", "t", "l", "e">>) THEN 1
       ELSE IF Contains(l, <<"h", "2">>) THEN 2
       ELSE IF Contains(l, <<"h", "3">>) THEN 3
       ELSE IF Contains(l, <<"h", "4">>) THEN 4
       ELSE 1

DocumentStructure(title, headers, tables, images, metadata) ==
    [title |-> title, headers |-> headers, tables |-> tables, images |-> images,
     metadata |-> metadata]

\* DocumentStructure(): every field at its default
DefaultStructure == DocumentStructure(NoStr, <<>>, <<>>, <<>>, <<>>)

HeadingItems(texts) ==
    SelectSeq(texts,
              LAMBDA t : t.label # <<>>
                         /\ Contains(Lower(t.label), <<"h", "e", "a", "d", "i", "n", "g">>))

\* the try block of _extract_structure (lines 80-115)
StructureOf(d) ==
    DocumentStructure(
        IF TruthyStr(d.title) THEN d.title ELSE NoStr,
        IF d.texts.kind = "present"
        THEN LET hs == HeadingItems(d.texts.items)
             IN [i \in 1..Len(hs) |->
                    [level |-> _get_header_level(hs[i].label), text |-> hs[i].stripped,
                     page |-> hs[i].page_no]]
        ELSE <<>>,
        IF d.tables.kind = "present"
        THEN [i \in 1..Len(d.tables.items) |->
                [content |-> <<"html", i>>, page |-> d.tables.items[i].page_no,
                 caption |-> NoStr]]
        ELSE <<>>,
        <<>>,
        <<"docling_version">>)

\* variant: the except clause lets the exception through
_extract_structure_Reraise(d) ==
    IF d.texts.kind = "raises" \/ d.tables.kind = "raises"
    THEN Raised("structure failed")
    ELSE Ok(StructureOf(d))

\* _extract_structure: the outcome of the call; reading doc.texts or doc.tables
\* may raise, and the except clause of line 117 answers with the default
_extract_structure(d) ==
    IF d.texts.kind = "raises" \/ d.tables.kind = "raises"
    THEN Ok(DefaultStructure)
    ELSE Ok(StructureOf(d))

\* _create_chunks as a call of process_document: the outcome of the call
CreateChunksCall(d, document_id) == Ok(_create_chunks(d.texts, d.tables, document_id))

-----------------------------------------------------------------------------
(* app.py: extract_document_structure *)

IsHeadingCandidate(label) ==
    label # <<>>
        /\ (Contains(Lower(label), <<"t", "i", "t", "l", "e">>)
             \/ Contains(Lower(label), <<"h", "e", "a", "d", "i", "n", "g">>))

\* the loop of lines 156-164 from item i on; raised tells that text.strip()
\* raised, which ends the try block with the sections appended so far
RECURSIVE SectionsLoop(_, _, _)
SectionsLoop(texts, i, sections) ==
    IF i > Len(texts) THEN [raised |-> FALSE, sections |-> sections]
    ELSE IF ~IsHeadingCandidate(texts[i].label)
    THEN SectionsLoop(texts, i + 1, sections)
    ELSE IF ~texts[i].stripped.ok
    THEN [raised |-> TRUE, sections |-> sections]
    ELSE SectionsLoop(texts, i + 1,
             Append(sections, [level |-> get_heading_level(texts[i].label),
                               text |-> texts[i].stripped.val,
                               type |-> texts[i].label]))

extract_document_structure(d) ==
    LET sec == IF d.texts.kind = "present" THEN SectionsLoop(d.texts.items, 1, <<>>)
               ELSE [raised |-> d.texts.kind = "raises", sections |-> <<>>]
    IN [title |-> None,
        sections |-> sec.sections,
        tables |-> IF ~sec.raised /\ d.tables.kind = "present"
                   THEN [i \in 1..Len(d.tables.items) |->
                            [index |-> i - 1, content |-> <<"markdown", i>>,
                             description |-> <<"Table", i>>]]
                   ELSE <<>>,
        key_elements |-> <<>>]

-----------------------------------------------------------------------------
(* Calls of the transform functions: the arguments are drawn in the initial   *)
(* state, the action applies the function.                                    *)

NotCalled == [done |-> FALSE, val |-> None]

Returned(v) == [done |-> TRUE, val |-> v]

Alphabet == {"a", " ", NL}

\* the markdown texts of at most n characters
Texts(n) == SeqsUpTo(Alphabet, n)

ExportError == "export failed"

\* first and second outcome of doc.export_to_markdown(); the second call
\* happens only after the first one raised
ExportOutcomes(n) ==
    {<<Ok(t), Ok(t)>> : t \in Texts(n)}
        \cup {<<Raised(ExportError), Ok(t)>> : t \in Texts(n)}
        \cup {<<Raised(ExportError), Raised(ExportError)>>}

LlmChunkArgs(n, m) == [exports : ExportOutcomes(n), max_chunk_size : 0..m]

SvcIdle ==
    /\ op = "none"
    /\ pc = "idle"
    /\ req = None
    /\ files = {}
    /\ temp_file = 0
    /\ temp_path = 0
    /\ doc = None
    /\ exc = NoExc
    /\ retval = None
    /\ resp = NoResp
    /\ converterCalls = 0
    /\ tempCreated = 0
    /\ callback = "none"
    /\ nreq = 0

InitLlmChunks ==
    /\ SvcIdle
    /\ fn = "create_llm_chunks"
    /\ arg \in LlmChunkArgs(MaxTextLen, MaxChunkArg)
    /\ out = NotCalled

CallCreateLlmChunks ==
    /\ fn = "create_llm_chunks"
    /\ ~out.done
    /\ out' = Returned(create_llm_chunks(arg.exports, arg.max_chunk_size))
    /\ UNCHANGED <<fn, arg>>
    /\ UNCHANGED svcVars

NextLlmChunks == CallCreateLlmChunks

\* labels: up to MaxLabelTokens pieces run together
LabelTokens ==
    { <<"t", "i", "t", "l", "e">>, <<"T", "i", "t", "l", "e">>,
      <<"T", "I", "T", "L", "E">>, <<"h", "e", "a", "d", "i", "n", "g">>,
      <<"h", "1">>, <<"H", "1">>, <<"h", "2">>, <<"h", "3">>, <<"H", "3">>,
      <<"h", "4">>, <<"h">>, <<"t">>, <<"_">>, <<"5">> }

Labels(n) == {Flatten(ts) : ts \in SeqsUpTo(LabelTokens, n)}

PageCollections(m) == {Absent, Raising} \cup {Present([i \in 1..n |-> i]) : n \in 0..m}

InitOutline ==
    /\ SvcIdle
    /\ \/ fn = "get_heading_level" /\ arg \in [label : Labels(MaxLabelTokens)]
       \/ fn = "get_page_count" /\ arg \in [pages : PageCollections(MaxPages)]
    /\ out = NotCalled

CallGetHeadingLevel ==
    /\ fn = "get_heading_level"
    /\ ~out.done
    /\ out' = Returned(get_heading_level(arg.label))
    /\ UNCHANGED <<fn, arg>>
    /\ UNCHANGED svcVars

CallGetPageCount ==
    /\ fn = "get_page_count"
    /\ ~out.done
    /\ out' = Returned(get_page_count(arg.pages))
    /\ UNCHANGED <<fn, arg>>
    /\ UNCHANGED svcVars

NextOutline == CallGetHeadingLevel \/ CallGetPageCount

SpecOutline == InitOutline /\ [][NextOutline]_vars

TextLens == {0, 1, 600}

PageNos == {NoPage, Page(0), Page(1), Page(2)}

\* the text of item i: -1 stands for a text that is None
TextOf(n, i) == IF n = -1 THEN Raised("text is None") ELSE Ok([n |-> n, tag |-> i])

\* text items in document order, from their <<length, page_no>> pairs; the
\* tag of an item's text is its position
TextItems(it) ==
    [i \in 1..Len(it) |->
        [stripped |-> TextOf(it[i][1], i), label |-> <<>>, page_no |-> it[i][2]]]

TableSeqs(m) == { [i \in 1..n |-> [page_no |-> Page(i)]] : n \in 0..m }

InitPageChunks ==
    /\ SvcIdle
    /\ fn = "_create_chunks"
    /\ \E tables \in {Absent, Raising} \cup {Present(t) : t \in TableSeqs(MaxTables)} :
          \/ \E texts \in {Absent, Raising} : arg = [texts |-> texts, tables |-> tables]
          \/ \E k \in 0..MaxItems :
                \E it \in [1..k -> (TextLens \cup {-1}) \X PageNos] :
                    arg = [texts |-> Present(TextItems(it)), tables |-> tables]
    /\ out = NotCalled

CallCreateChunks ==
    /\ fn = "_create_chunks"
    /\ ~out.done
    /\ out' = Returned(_create_chunks(arg.texts, arg.tables, "d"))
    /\ UNCHANGED <<fn, arg>>
    /\ UNCHANGED svcVars

NextPageChunks == CallCreateChunks

SpecPageChunks == InitPageChunks /\ [][NextPageChunks]_vars

SpecLlmChunks == InitLlmChunks /\ [][NextLlmChunks]_vars

-----------------------------------------------------------------------------
(* The operations of the service: POST /extract (app.py) and                  *)
(* DoclingProcessor.process_document (docling_processor.py). One operation    *)
(* runs at a time; the environment decides at each step whether it raises.    *)

API_KEY == "configured-key"

Tokens == {API_KEY, "other-key"}

DotPdf == <<".", "p", "d", "f">>

Filenames ==
    { <<"a">> \o DotPdf, <<"A", ".", "P", "D", "F">>, <<"a", ".", "t", "x", "t">>,
      <<"p", "d", "f">>, <<"a">> \o DotPdf \o <<".", "t", "x", "t">> }

OptStrs(v) == {NoStr, SomeStr(""), SomeStr(v)}

ExtractRequests ==
    [token : Tokens, filename : Filenames, callback_url : OptStrs("http://cb"),
     resource_id : OptStrs("r1")]

ProcessRequests == [document_id : {"d1", "d2"}]

SampleText == <<"a", NL, NL, "a", " ", "a">>

SampleExports ==
    { <<Ok(SampleText), Ok(SampleText), Ok(SampleText)>>,
      <<Raised("export failed"), Raised("export failed"), Raised("export failed")>>,
      <<Ok(SampleText), Raised("export failed"), Ok(SampleText)>> }

SampleItems ==
    << [stripped |-> Ok([n |-> 1, tag |-> 1]), label |-> <<"t", "i", "t", "l", "e">>,
        page_no |-> Page(1)],
       [stripped |-> Ok([n |-> 1, tag |-> 2]),
        label |-> <<"h", "e", "a", "d", "i", "n", "g", "_", "h", "3">>, page_no |-> Page(1)],
       [stripped |-> Ok([n |-> 600, tag |-> 3]), label |-> <<>>, page_no |-> Page(2)] >>

SampleDocs ==
    [exports : SampleExports,
     title : {NoStr},
     texts : {Absent, Raising, Present(SampleItems),
              Present(Append(SampleItems,
                  [stripped |-> Raised("text is None"),
                   label |-> <<"h", "e", "a", "d", "i", "n", "g">>, page_no |-> NoPage]))},
     tables : {Present(<< [page_no |-> Page(2)] >>)},
     pages : {Absent, Present(<<1, 2>>)},
     pictures : {Absent}]

\* variant: ".pdf" anywhere in the name
is_pdf_Anywhere(filename) == Contains(Lower(filename), DotPdf)

\* line 56
is_pdf(filename) == EndsWith(Lower(filename), DotPdf)

HTTPException(status_code, detail) ==
    [via |-> "raise", status |-> status_code, body |-> [detail |-> detail]]

\* a value returned by the handler: the framework sends it with status 200
Returns(body) == [via |-> "return", status |-> 200, body |-> body]

\* lines 76-97, once doc.export_to_markdown() has answered with markdown
ExtractionResult(filename, d) ==
    [filename |-> filename,
     success |-> TRUE,
     content |->
        [markdown |-> d.exports[1].val,
         structure |-> extract_document_structure(d),
         text_chunks |-> create_llm_chunks(Tail(d.exports), DefaultMaxChunkSize),
         metadata |-> [page_count |-> get_page_count(d.pages),
                       has_tables |-> has_tables(d.tables),
                       has_images |-> has_images(d.pictures),
                       processing_method |-> "docling"]]]

\* line 102
WantsCallback(r) == TruthyStr(r.callback_url) /\ TruthyStr(r.resource_id)

\* line 121
CallbackAck(resource_id) ==
    [success |-> TRUE, message |-> "Results sent to callback URL", resource_id |-> resource_id]

\* variant: a callback failure is reported as a failed extraction
CallbackFailureResult_Error(extraction_result, callback_error) ==
    [filename |-> extraction_result.filename, success |-> FALSE,
     error |-> callback_error, content |-> None]

\* lines 123-126: what the handler returns when the callback POST raised
CallbackFailureResult(extraction_result, callback_error) == extraction_result

\* variant: a processing failure is raised as an HTTP 500
ErrorResponse_Http500(filename, e) == HTTPException(500, e)

\* lines 135-142
ErrorResponse(filename, e) ==
    Returns([filename |-> filename, success |-> FALSE, error |-> e, content |-> None])

InitService ==
    /\ SvcIdle
    /\ fn = "none"
    /\ arg = None
    /\ out = NotCalled

Begin(o, r, first) ==
    /\ pc \in {"idle", "done"}
    /\ nreq < MaxRequests
    /\ op' = o
    /\ req' = r
    /\ pc' = first
    /\ nreq' = nreq + 1
    /\ temp_file' = 0
    /\ temp_path' = 0
    /\ doc' = None
    /\ exc' = NoExc
    /\ retval' = None
    /\ resp' = NoResp
    /\ converterCalls' = 0
    /\ tempCreated' = 0
    /\ callback' = "none"
    /\ UNCHANGED <<files, fnVars>>

\* a POST /extract request arrives; the dependency verify_api_key runs first
StartExtract == \E r \in ExtractRequests : Begin("extract", r, "verify_api_key")

\* lines 22-26
VerifyApiKey ==
    /\ op = "extract" /\ pc = "verify_api_key"
    /\ IF req.token # API_KEY
       THEN resp' = HTTPException(401, "Invalid API key") /\ pc' = "done"
       ELSE resp' = resp /\ pc' = "check_extension"
    /\ UNCHANGED <<op, req, files, temp_file, temp_path, doc, exc, retval,
                   converterCalls, tempCreated, callback, nreq, fnVars>>

\* lines 56-57
CheckExtension ==
    /\ op = "extract" /\ pc = "check_extension"
    /\ IF ~is_pdf(req.filename)
       THEN resp' = HTTPException(400, "Only PDF files are supported") /\ pc' = "done"
       ELSE resp' = resp /\ pc' = "read"
    /\ UNCHANGED <<op, req, files, temp_file, temp_path, doc, exc, retval,
                   converterCalls, tempCreated, callback, nreq, fnVars>>

\* line 63
ReadUpload ==
    /\ op = "extract" /\ pc = "read"
    /\ \/ pc' = "mktemp" /\ exc' = exc
       \/ pc' = "except" /\ exc' = Exc("read failed")
    /\ UNCHANGED <<op, req, files, temp_file, temp_path, doc, retval, resp,
                   converterCalls, tempCreated, callback, nreq, fnVars>>

\* tempfile.NamedTemporaryFile(delete=False, suffix='.pdf'): app.py line 66,
\* docling_processor.py line 27. The file gets the id of the operation.
CreateTempFile ==
    /\ op \in {"extract", "process"} /\ pc = "mktemp"
    /\ \/ /\ files' = files \cup {nreq}
          /\ temp_file' = nreq
          /\ tempCreated' = tempCreated + 1
          /\ pc' = "write"
          /\ exc' = exc
       \/ /\ pc' = "except"
          /\ exc' = Exc("mkstemp failed")
          /\ UNCHANGED <<files, temp_file, tempCreated>>
    /\ UNCHANGED <<op, req, temp_path, doc, retval, resp, converterCalls, callback,
                   nreq, fnVars>>

\* the body of the with statement and its exit: app.py lines 67-68,
\* docling_processor.py lines 28-29. write may raise before temp_path is
\* bound, the close at the exit of the with after; the exit closes the file
\* and, delete being False, leaves it on disk.
WriteTempFile ==
    /\ op \in {"extract", "process"} /\ pc = "write"
    /\ \/ temp_path' = temp_file /\ pc' = "convert" /\ exc' = exc
       \/ temp_path' = temp_path /\ pc' = "except" /\ exc' = Exc("write failed")
       \/ temp_path' = temp_file /\ pc' = "except" /\ exc' = Exc("close failed")
    /\ UNCHANGED <<op, req, files, temp_file, doc, retval, resp, converterCalls,
                   tempCreated, callback, nreq, fnVars>>

\* converter.convert(temp_path) and result.document: app.py lines 72-73,
\* docling_processor.py lines 33-34
Convert ==
    /\ op \in {"extract", "process"} /\ pc = "convert"
    /\ converterCalls' = converterCalls + 1
    /\ \/ \E d \in SampleDocs : doc' = d /\ pc' = "transform" /\ exc' = exc
       \/ doc' = doc /\ pc' = "finally" /\ exc' = Exc("convert failed")
    /\ UNCHANGED <<op, req, files, temp_file, temp_path, retval, resp, tempCreated,
                   callback, nreq, fnVars>>

\* lines 76-102 and 127-128: build extraction_result, then return it or go on
\* to the callback
ExtractTransform ==
    /\ op = "extract" /\ pc = "transform"
    /\ IF ~doc.exports[1].ok
       THEN exc' = Exc(doc.exports[1].val) /\ pc' = "finally" /\ retval' = retval
       ELSE /\ exc' = exc
            /\ IF WantsCallback(req)
               THEN pc' = "callback" /\ retval' = retval
               ELSE pc' = "finally" /\ retval' = ExtractionResult(req.filename, doc)
    /\ UNCHANGED <<op, req, files, temp_file, temp_path, doc, resp, converterCalls,
                   tempCreated, callback, nreq, fnVars>>

\* lines 103-126: the POST raises or not, whatever status the receiver answers
SendCallback ==
    /\ op = "extract" /\ pc = "callback"
    /\ \/ callback' = "sent" /\ retval' = CallbackAck(req.resource_id.v)
       \/ /\ callback' = "failed"
          /\ retval' = CallbackFailureResult(ExtractionResult(req.filename, doc),
                                            "connect failed")
    /\ pc' = "finally"
    /\ UNCHANGED <<op, req, files, temp_file, temp_path, doc, exc, resp, converterCalls,
                   tempCreated, nreq, fnVars>>

\* the finally block (app.py lines 130-133, docling_processor.py lines 57-60),
\* then what entered it goes on: the return completes, or the exception
\* reaches the except clause
Finally ==
    /\ op \in {"extract", "process"} /\ pc = "finally"
    /\ files' = IF temp_path \in files THEN files \ {temp_path} ELSE files
    /\ IF exc.raised
       THEN pc' = "except" /\ resp' = resp
       ELSE pc' = "done" /\ resp' = Returns(retval)
    /\ UNCHANGED <<op, req, temp_file, temp_path, doc, exc, retval, converterCalls,
                   tempCreated, callback, nreq, fnVars>>

\* lines 135-142
ExtractExcept ==
    /\ op = "extract" /\ pc = "except"
    /\ resp' = ErrorResponse(req.filename, exc.msg)
    /\ pc' = "done"
    /\ UNCHANGED <<op, req, files, temp_file, temp_path, doc, exc, retval,
                   converterCalls, tempCreated, callback, nreq, fnVars>>

(* DoclingProcessor.process_document *)

Completed(document_id, raw_text, structured_data, chunks, processing_time) ==
    [document_id |-> document_id, status |-> "completed", raw_text |-> raw_text,
     structured_data |-> structured_data, chunks |-> chunks,
     processing_time |-> processing_time, error_message |-> NoStr]

\* lines 66-74
FailedResult(document_id, processing_time, e) ==
    [document_id |-> document_id, status |-> "failed", raw_text |-> <<>>,
     structured_data |-> DefaultStructure, chunks |-> <<>>,
     processing_time |-> processing_time, error_message |-> SomeStr(e)]

\* a call of process_document: line 18 reads the clock, the try block starts
StartProcess == \E r \in ProcessRequests : Begin("process", r, "mktemp")

\* lines 37-55: a call that raises sends its exception to the finally block
ProcessTransform ==
    /\ op = "process" /\ pc = "transform"
    /\ LET raw_text == doc.exports[1]
           structured_data == _extract_structure(doc)
           chunks == CreateChunksCall(doc, req.document_id)
       IN IF ~raw_text.ok
          THEN exc' = Exc(raw_text.val) /\ pc' = "finally" /\ retval' = retval
          ELSE IF ~structured_data.ok
          THEN exc' = Exc(structured_data.val) /\ pc' = "finally" /\ retval' = retval
          ELSE IF ~chunks.ok
          THEN exc' = Exc(chunks.val) /\ pc' = "finally" /\ retval' = retval
          ELSE /\ exc' = exc
               /\ pc' = "finally"
               /\ \E processing_time \in 0..MaxElapsed :
                    retval' = Completed(req.document_id, raw_text.val,
                                        structured_data.val, chunks.val, processing_time)
    /\ UNCHANGED <<op, req, files, temp_file, temp_path, doc, resp, converterCalls,
                   tempCreated, callback, nreq, fnVars>>

\* lines 62-74
ProcessExcept ==
    /\ op = "process" /\ pc = "except"
    /\ \E processing_time \in 0..MaxElapsed :
         resp' = Returns(FailedResult(req.document_id, processing_time, exc.msg))
    /\ pc' = "done"
    /\ UNCHANGED <<op, req, files, temp_file, temp_path, doc, exc, retval,
                   converterCalls, tempCreated, callback, nreq, fnVars>>

Next ==
    \/ StartExtract
    \/ VerifyApiKey
    \/ CheckExtension
    \/ ReadUpload
    \/ CreateTempFile
    \/ WriteTempFile
    \/ Convert
    \/ ExtractTransform
    \/ SendCallback
    \/ Finally
    \/ ExtractExcept
    \/ StartProcess
    \/ ProcessTransform
    \/ ProcessExcept

Spec == InitService /\ [][Next]_vars

-----------------------------------------------------------------------------
(* Claims about create_llm_chunks *)

NonEmpty(s) == s # <<>>

StripAll(parts) == [i \in 1..Len(parts) |-> Strip(parts[i])]

\* the trimmed non-empty paragraphs of a markdown text, in order
TrimmedParagraphs(text) == SelectSeq(StripAll(Split(text, ParagraphSep)), NonEmpty)

\* the paragraphs read back from the chunks, in chunk order
ChunkParagraphs(chunks) ==
    Flatten([i \in 1..Len(chunks) |-> Split(chunks[i].text, ParagraphSep)])

ParagraphCall == fn = "create_llm_chunks" /\ out.done /\ arg.exports[1].ok

\* C2: the paragraph-aware chunker neither drops nor reorders content: the
\* chunks' texts split on the blank-line separator and concatenated in chunk
\* order are exactly the trimmed non-empty paragraphs of the input, in order.
C2_ChunksKeepParagraphs ==
    ParagraphCall => ChunkParagraphs(out.val) = TrimmedParagraphs(arg.exports[1].val)

\* a call that flushed a chunk of two paragraphs, emitted a second chunk and
\* skipped an empty paragraph
C2_Witness ==
    /\ ParagraphCall
    /\ Len(out.val) >= 2
    /\ \E i \in 1..Len(out.val) : Len(Split(out.val[i].text, ParagraphSep)) >= 2
    /\ Len(TrimmedParagraphs(arg.exports[1].val)) >= 3

\* C9: every paragraph_group chunk has size at most max_chunk_size.
C9_ChunkSizeBounded ==
    ParagraphCall =>
        \A i \in 1..Len(out.val) :
            out.val[i].type = "paragraph_group" => out.val[i].size <= arg.max_chunk_size

\* a call whose first export raised and whose second export answered: the
\* word-level fallback of lines 222-242 ran
WordCall ==
    fn = "create_llm_chunks" /\ out.done /\ ~arg.exports[1].ok /\ arg.exports[2].ok

\* the words read back from the chunks, in chunk order
ChunkWords(chunks) ==
    Flatten([i \in 1..Len(chunks) |-> SplitWhitespace(chunks[i].text)])

\* C11: in the word-level fallback every word_split chunk holds at least one
\* word (none has empty text and size 0), and the chunks' words in chunk order
\* are exactly the whitespace-split words of the input, in order.
C11_WordChunksNonEmpty ==
    WordCall =>
        /\ \A i \in 1..Len(out.val) :
              /\ out.val[i].type = "word_split"
              /\ SplitWhitespace(out.val[i].text) # <<>>
              /\ out.val[i].size > 0
        /\ ChunkWords(out.val) = SplitWhitespace(arg.exports[2].val)

\* the part of C11 that the fallback does keep: no word is lost or reordered
C11_WordsKept == WordCall => ChunkWords(out.val) = SplitWhitespace(arg.exports[2].val)

-----------------------------------------------------------------------------
(* Claims about get_heading_level, get_page_count and _create_chunks *)

SameLetter(c, d) ==
    c = d \/ <<c, d>> \in {<<"T", "t">>, <<"I", "i">>, <<"L", "l">>, <<"E", "e">>,
                           <<"H", "h">>}

\* the label contains p, whatever the case of the label's letters
ContainsAnyCase(label, p) ==
    \E i \in 0..(Len(label) - Len(p)) : \A k \in 1..Len(p) : SameLetter(label[i + k], p[k])

HasTitle(label) == ContainsAnyCase(label, <<"t", "i", "t", "l", "e">>)

HasH(label, digit) == ContainsAnyCase(label, <<"h", digit>>)

HeadingCall == fn = "get_heading_level" /\ out.done

\* C6: get_heading_level tests the lower-cased label for "title", "h1",
\* "h2", "h3", "h4" in this order and the first match decides: "title" -> 1
\* whatever else the label contains, "h3" without "title", "h1", "h2" -> 3,
\* no match -> 2; the level is always in 1..4.
C6_HeadingLevelOrder ==
    HeadingCall =>
        LET l == arg.label
        IN /\ out.val \in 1..4
           /\ HasTitle(l) => out.val = 1
           /\ (~HasTitle(l) /\ HasH(l, "1")) => out.val = 1
           /\ (~HasTitle(l) /\ ~HasH(l, "1") /\ HasH(l, "2")) => out.val = 2
           /\ (~HasTitle(l) /\ ~HasH(l, "1") /\ ~HasH(l, "2") /\ HasH(l, "3")) => out.val = 3
           /\ (~HasTitle(l) /\ ~HasH(l, "1") /\ ~HasH(l, "2") /\ ~HasH(l, "3")
                 /\ HasH(l, "4")) => out.val = 4
           /\ (~HasTitle(l) /\ ~HasH(l, "1") /\ ~HasH(l, "2") /\ ~HasH(l, "3")
                 /\ ~HasH(l, "4")) => out.val = 2

\* a label with an upper-case "Title" next to "h3" got level 1
C6_Witness ==
    /\ HeadingCall
    /\ Contains(arg.label, <<"T", "i", "t", "l", "e">>)
    /\ Contains(arg.label, <<"h", "3">>)
    /\ out.val = 1

PageCountCall == fn = "get_page_count" /\ out.done

\* C7: get_page_count never returns 0: the count is at least 1, the length of
\* the page collection when it is present and 1 when it is absent or raises.
C7_PageCountAtLeastOne ==
    PageCountCall =>
        /\ out.val >= 1
        /\ arg.pages.kind = "present" => out.val = Len(arg.pages.items)
        /\ arg.pages.kind # "present" => out.val = 1

PageChunksCall == fn = "_create_chunks" /\ out.done /\ arg.texts.kind = "present"

\* C8: every text chunk of _create_chunks holds items of one page number
\* only, and its page_number is the page number of its first item.
C8_ChunkOfOnePage ==
    PageChunksCall =>
        \A i \in 1..Len(out.val) :
            out.val[i].chunk_type = "text" =>
                \A j \in 1..Len(out.val[i].content.parts) :
                    arg.texts.items[out.val[i].content.parts[j].tag].page_no
                        = out.val[i].page_number

-----------------------------------------------------------------------------
(* Claims about the operations of the service *)

\* the filename ends in ".pdf", whatever the case of its letters
PdfName(f) ==
    /\ Len(f) >= 4
    /\ f[Len(f) - 3] = "."
    /\ f[Len(f) - 2] \in {"p", "P"}
    /\ f[Len(f) - 1] \in {"d", "D"}
    /\ f[Len(f)] \in {"f", "F"}

ExtractDone == op = "extract" /\ pc = "done"

ProcessDone == op = "process" /\ pc = "done"

\* C1: when an operation that created the transient file returns, the file
\* no longer exists, whatever the exit path.
C1_TempFileGone == (pc = "done" /\ temp_file # 0) => temp_file \notin files

\* C3: an authenticated request with a PDF filename never ends in an HTTP
\* error status: an exception raised while reading, writing, converting or
\* transforming yields 200 with success false, the exception's message and
\* content null. Error statuses come only from the authentication check (401)
\* and the extension check (400).
C3_FailuresAreData ==
    ExtractDone =>
        /\ (req.token = API_KEY /\ PdfName(req.filename)) =>
              /\ resp.via = "return"
              /\ resp.status = 200
              /\ exc.raised =>
                    resp.body = [filename |-> req.filename, success |-> FALSE,
                                 error |-> exc.msg, content |-> None]
        /\ resp.status # 200 =>
              \/ resp.status = 401 /\ req.token # API_KEY
              \/ resp.status = 400 /\ ~PdfName(req.filename)

\* the converter raised in an authenticated PDF request that was answered
C3_Witness ==
    /\ ExtractDone
    /\ exc = Exc("convert failed")
    /\ resp.status = 200
    /\ ~resp.body.success

Given(x) == x.some /\ x.v # ""

\* C4: a failed callback POST is not surfaced: the request returns 200 with
\* the full extraction result; a callback POST that succeeds yields the short
\* acknowledgement; without callback_url or resource_id no callback is
\* attempted and the full extraction result is returned.
C4_CallbackFallback ==
    /\ callback # "none" => Given(req.callback_url) /\ Given(req.resource_id)
    /\ (ExtractDone /\ resp.via = "return" /\ ~exc.raised) =>
          /\ resp.status = 200
          /\ callback = "sent" =>
                resp.body = [success |-> TRUE, message |-> "Results sent to callback URL",
                             resource_id |-> req.resource_id.v]
          /\ callback = "failed" =>
                /\ resp.body.success
                /\ resp.body.filename = req.filename
                /\ resp.body.content # None
                /\ resp.body.content.markdown = doc.exports[1].val
                /\ DOMAIN resp.body.content =
                       {"markdown", "structure", "text_chunks", "metadata"}
          /\ ~(Given(req.callback_url) /\ Given(req.resource_id)) =>
                /\ callback = "none"
                /\ resp.body.success
                /\ resp.body.content # None
                /\ resp.body.content.markdown = doc.exports[1].val
          /\ (Given(req.callback_url) /\ Given(req.resource_id)) => callback # "none"

\* the callback POST failed and the request was answered with the result
C4_Witness ==
    /\ ExtractDone
    /\ callback = "failed"
    /\ resp.status = 200
    /\ resp.body.success
    /\ resp.body.content # None

NoConversionNoTempFile == converterCalls = 0 /\ tempCreated = 0 /\ temp_file = 0

\* C5 as stated: every request whose filename does not end in .pdf is
\* rejected with 400, every request with a wrong token with 401, and neither
\* invokes the converter nor creates a temp file.
C5_AsStated ==
    op = "extract" =>
        /\ ~PdfName(req.filename) =>
              NoConversionNoTempFile /\ (pc = "done" => resp.status = 400)
        /\ req.token # API_KEY =>
              NoConversionNoTempFile /\ (pc = "done" => resp.status = 401)

\* C5, amended: every request with the configured token whose filename does
\* not end in .pdf (in any case) is rejected with 400; every request with
\* another token is rejected with 401, whatever its filename; neither invokes
\* the converter nor creates a temp file.
C5_RejectedBeforeWork ==
    op = "extract" =>
        /\ ~PdfName(req.filename) =>
              /\ NoConversionNoTempFile
              /\ (pc = "done" /\ req.token = API_KEY) => resp.status = 400
        /\ req.token # API_KEY =>
              NoConversionNoTempFile /\ (pc = "done" => resp.status = 401)

\* an authenticated request for a.pdf.txt was rejected with 400
C5_Witness ==
    /\ ExtractDone
    /\ req.token = API_KEY
    /\ req.filename = <<"a">> \o DotPdf \o <<".", "t", "x", "t">>
    /\ resp.status = 400
    /\ resp.via = "raise"

FailureMessages ==
    {"mkstemp failed", "write failed", "close failed", "convert failed", "export failed"}

\* C10: process_document never lets an exception out: it returns a result
\* that is COMPLETED (raw text, structure, chunks, processing time, no error
\* message) or FAILED (empty raw text, default structure, no chunks, a
\* processing time, an error message); it is FAILED exactly when the temp
\* file, the converter or the markdown export raised, so a failure inside
\* structure extraction or chunk creation still yields COMPLETED.
C10_ProcessNeverRaises ==
    ProcessDone =>
        /\ resp.via = "return"
        /\ resp.body.document_id = req.document_id
        /\ resp.body.processing_time >= 0
        /\ exc.raised => exc.msg \in FailureMessages
        /\ IF exc.raised
           THEN /\ resp.body.status = "failed"
                /\ resp.body.raw_text = <<>>
                /\ resp.body.structured_data = DefaultStructure
                /\ resp.body.chunks = <<>>
                /\ resp.body.error_message = SomeStr(exc.msg)
           ELSE /\ resp.body.status = "completed"
                /\ resp.body.raw_text = doc.exports[1].val
                /\ resp.body.error_message = NoStr
                /\ doc.texts.kind = "raises" =>
                      /\ resp.body.structured_data = DefaultStructure
                      /\ resp.body.chunks = <<>>
                /\ doc.texts.kind = "present" =>
                      /\ Len(resp.body.structured_data.headers) >= 1
                      /\ Len(resp.body.chunks) >= 1

\* reading doc.texts raised inside structure extraction and chunk creation,
\* and the document was still COMPLETED
C10_Witness ==
    /\ ProcessDone
    /\ doc # None
    /\ doc.texts.kind = "raises"
    /\ resp.body.status = "completed"

====
